---- MODULE Spec2Model ----
(***************************************************************************)
(* Model of gotobi_notifier.py: the calendar classifier, the business-day  *)
(* normaliser, the fixing-day engine, the notification window, and the     *)
(* dedup / retry state machine of run_once and main.                       *)
(*                                                                         *)
(* A date is a record [year, month, day]; a datetime (always JST) is a     *)
(* record [date, hh, mm].  A holiday CSV file is [exists, tokens] where a  *)
(* token is the 8-digit number left after the separators are removed, or 0 *)
(* for a token that is not 8 digits.  A state file is [kind, ftype, fval]: *)
(* kind says what json.load makes of it, ftype/fval describe the value of  *)
(* the field last_notified_fixing_yyyymmdd.                                *)
(***************************************************************************)
EXTENDS Integers, Sequences, FiniteSets, TLC

VARIABLES
    cfg,            \* Config (frozen dataclass), fixed for the whole behaviour
    jpFile,         \* content of cfg.holiday_csv_jp
    usFile,         \* content of cfg.holiday_csv_us
    stateFile,      \* content of cfg.state_file
    now,            \* the instant the current attempt evaluates (now_jst)
    pc,             \* position inside main / run_once
    attempt,        \* main's loop variable: 0 before main, then 1 or 2
    fx,             \* run_once locals fixing_date / base_day
    exitStatus,     \* value returned by main, -1 while it runs
    raised,         \* history: the exceptions raised in this call of main
    okInMain,       \* history: keys whose dispatch step completed in this call of main
    sent,           \* history: per attempt, the number of ntfy_publish / local_notify calls
    everOk,         \* history: keys whose dispatch step ever completed
    dup,            \* history: keys whose dispatch step completed more than once
    saveFailed,     \* history: some save_state has raised
    stateAtMain,    \* history: stateFile when main started
    stateAtRun,     \* history: stateFile when the current run_once started
    outcome,        \* history: how the last run_once ended
    call            \* the last pure-function application (SpecFn only)

vars == <<cfg, jpFile, usFile, stateFile, now, pc, attempt, fx,
          exitStatus, raised, okInMain, sent, everOk, dup, saveFailed,
          stateAtMain, stateAtRun, outcome, call>>

(***************************************************************************)
(* Dates (datetime.date) and the helpers of the source.                    *)
(***************************************************************************)
MkDate(y, m, d) == [year |-> y, month |-> m, day |-> d]

\* fixing_date is None
NoDate == MkDate(0, 0, 0)

_date_key(d) == d.year * 10000 + d.month * 100 + d.day

_is_leap_year(year) == year % 400 = 0 \/ (year % 4 = 0 /\ year % 100 # 0)

_days_in_month(year, month) ==
    IF month = 2 THEN (IF _is_leap_year(year) THEN 29 ELSE 28)
    ELSE IF month \in {1, 3, 5, 7, 8, 10, 12} THEN 31
    ELSE 30

_is_yearend_closure_day(d) ==
    (d.month = 12 /\ d.day = 31) \/ (d.month = 1 /\ 1 <= d.day /\ d.day <= 3)

\* date.toordinal(): proleptic Gregorian day number, 0001-01-01 is day 1
DaysBeforeMonth(year, month) ==
    <<0, 31, 59, 90, 120, 151, 181, 212, 243, 273, 304, 334>>[month]
    + (IF month > 2 /\ _is_leap_year(year) THEN 1 ELSE 0)

ToOrdinal(d) ==
    LET y == d.year - 1
    IN  y * 365 + (y \div 4) - (y \div 100) + (y \div 400)
        + DaysBeforeMonth(d.year, d.month) + d.day

\* date.weekday(): Monday = 0 .. Sunday = 6
Weekday(d) == (ToOrdinal(d) + 6) % 7

\* cur - timedelta(days=1)
PrevDay(d) ==
    IF d.day > 1 THEN MkDate(d.year, d.month, d.day - 1)
    ELSE IF d.month > 1
         THEN MkDate(d.year, d.month - 1, _days_in_month(d.year, d.month - 1))
         ELSE MkDate(d.year - 1, 12, 31)

\* today + timedelta(days=1)
NextDay(d) ==
    IF d.day < _days_in_month(d.year, d.month) THEN MkDate(d.year, d.month, d.day + 1)
    ELSE IF d.month < 12 THEN MkDate(d.year, d.month + 1, 1)
    ELSE MkDate(d.year + 1, 1, 1)

\* date.fromordinal()
FromOrdinal(ord) ==
    LET n0 == ord - 1
        n400 == n0 \div 146097
        r400 == n0 % 146097
        n100 == r400 \div 36524
        r100 == r400 % 36524
        n4 == r100 \div 1461
        r4 == r100 % 1461
        n1 == r4 \div 365
        n == r4 % 365
        year == n400 * 400 + 1 + n100 * 100 + n4 * 4 + n1
        m0 == (n + 50) \div 32
        before0 == DaysBeforeMonth(year, m0)
        month == IF before0 > n THEN m0 - 1 ELSE m0
    IN  IF n1 = 4 \/ n100 = 4 THEN MkDate(year - 1, 12, 31)
        ELSE MkDate(year, month, n - DaysBeforeMonth(year, month) + 1)

\* d + timedelta(days=n)
AddDays(d, n) == FromOrdinal(ToOrdinal(d) + n)

(***************************************************************************)
(* Holiday CSV loading.                                                    *)
(***************************************************************************)
\* _try_parse_holiday_token on the digits of a token: TRUE iff it returns a date
TokenIsDate(t) ==
    /\ t >= 10000000 /\ t <= 99999999          \* len(s) = 8 and s.isdigit(), year > 1900
    /\ LET year == t \div 10000
           month == (t \div 100) % 100
           day == t % 100
       IN  /\ ~(year <= 1900 \/ month < 1 \/ month > 12)
           /\ ~(day < 1 \/ day > _days_in_month(year, month))

\* load_holiday_keys: [err, keys]
load_holiday_keys(file) ==
    IF ~file.exists THEN [err |-> "FileNotFoundError", keys |-> {}]
    ELSE LET keys == {t \in file.tokens : TokenIsDate(t)}
         IN  IF keys = {} THEN [err |-> "ValueError", keys |-> {}]
             ELSE [err |-> "none", keys |-> keys]

\* a holiday_keys argument: None, or a set of keys
NoneKeys == [isNone |-> TRUE, keys |-> {}]
SomeKeys(s) == [isNone |-> FALSE, keys |-> s]

\* a wrong test: no date is a holiday
_is_holiday_never(d, holiday_keys) == FALSE

_is_holiday(d, holiday_keys) == _date_key(d) \in holiday_keys

(***************************************************************************)
(* Business-day normaliser.                                                *)
(***************************************************************************)
\* range(60) in normalize_biz_day
MaxBackSteps == 60

\* the test of one loop iteration: cur is returned
IsBizDay(cur, hjp, hus, c) ==
    LET is_weekend == Weekday(cur) >= 5
        is_holiday ==
            \/ (c.enable_holiday_jp /\ ~hjp.isNone /\ _is_holiday(cur, hjp.keys))
            \/ (c.enable_holiday_us /\ ~hus.isNone /\ _is_holiday(cur, hus.keys))
        is_yearend == c.exclude_yearend_bank_closure /\ _is_yearend_closure_day(cur)
    IN  (~is_weekend) /\ (~is_holiday) /\ (~is_yearend)

\* a wrong step: forward instead of backward
StepBack_fwd(cur) == NextDay(cur)

StepBack(cur) == PrevDay(cur)

RECURSIVE NormLoop(_, _, _, _, _)
NormLoop(cur, i, hjp, hus, c) ==
    IF i >= MaxBackSteps THEN cur
    ELSE IF IsBizDay(cur, hjp, hus, c) THEN cur
    ELSE NormLoop(StepBack(cur), i + 1, hjp, hus, c)

normalize_biz_day(d, hjp, hus, c) == NormLoop(d, 0, hjp, hus, c)

(***************************************************************************)
(* Fixing-day engine.                                                      *)
(***************************************************************************)
\* a wrong carve-out: 31 is appended whenever the month has 31 days
Day31Allowed_always(month, c) == TRUE

Day31Allowed(month, c) == ~(c.exclude_yearend_bank_closure /\ month = 12)

build_gotobi_base_days(year, month, c) ==
    LET dim == _days_in_month(year, month)
        fixed == SelectSeq(<<5, 10, 15, 20, 25, 30>>, LAMBDA d : d <= dim)
        with31 == IF c.include_day31 /\ dim >= 31 /\ Day31Allowed(month, c)
                  THEN Append(fixed, 31) ELSE fixed
    IN  IF c.include_feb_last_day /\ month = 2 THEN Append(with31, dim) ELSE with31

RECURSIVE FixingLoop(_, _, _, _, _, _)
FixingLoop(days, i, target, hjp, hus, c) ==
    IF i > Len(days) THEN [found |-> FALSE, base |-> 0]
    ELSE LET base_day == days[i]
             base_date == MkDate(target.year, target.month, base_day)
             normalized == normalize_biz_day(base_date, hjp, hus, c)
         IN  IF c.exclude_yearend_bank_closure /\ _is_yearend_closure_day(normalized)
             THEN FixingLoop(days, i + 1, target, hjp, hus, c)
             ELSE IF normalized = target
                  THEN [found |-> TRUE, base |-> base_day]
                  ELSE FixingLoop(days, i + 1, target, hjp, hus, c)

is_fixing_day(target, hjp, hus, c) ==
    FixingLoop(build_gotobi_base_days(target.year, target.month, c), 1, target, hjp, hus, c)

\* a wrong order: tomorrow is looked at first
choose_fixing_date_tomorrow_first(now_jst, hjp, hus, c) ==
    LET today == now_jst.date
        tomorrow == NextDay(today)
        t == is_fixing_day(today, hjp, hus, c)
        m == is_fixing_day(tomorrow, hjp, hus, c)
    IN  IF m.found THEN [date |-> tomorrow, base |-> m.base]
        ELSE IF t.found THEN [date |-> today, base |-> t.base]
        ELSE [date |-> NoDate, base |-> 0]

choose_fixing_date(now_jst, hjp, hus, c) ==
    LET today == now_jst.date
        tomorrow == NextDay(today)
        t == is_fixing_day(today, hjp, hus, c)
        m == is_fixing_day(tomorrow, hjp, hus, c)
    IN  IF t.found THEN [date |-> today, base |-> t.base]
        ELSE IF m.found THEN [date |-> tomorrow, base |-> m.base]
        ELSE [date |-> NoDate, base |-> 0]

(***************************************************************************)
(* Notification window.                                                    *)
(***************************************************************************)
MkDt(d, hh, mm) == [date |-> d, hh |-> hh, mm |-> mm]

\* comparison of two datetimes of the same tzinfo: field by field
DtLess(a, b) ==
    \/ _date_key(a.date) < _date_key(b.date)
    \/ /\ a.date = b.date
       /\ (a.hh < b.hh \/ (a.hh = b.hh /\ a.mm < b.mm))

DtLeq(a, b) == a = b \/ DtLess(a, b)

\* a wrong bound: the end of the window is included
EndBound_closed(now_jst, window_end) == DtLeq(now_jst, window_end)

EndBound(now_jst, window_end) == DtLess(now_jst, window_end)

in_notify_window(now_jst, fixing_date, c) ==
    LET prev_date == PrevDay(fixing_date)
        window_start == MkDt(prev_date, c.window_prev_day_start_hhmm[1],
                                        c.window_prev_day_start_hhmm[2])
        window_end == MkDt(fixing_date, c.window_fixing_end_hhmm[1],
                                        c.window_fixing_end_hhmm[2])
    IN  DtLeq(window_start, now_jst) /\ EndBound(now_jst, window_end)

(***************************************************************************)
(* State file.                                                             *)
(***************************************************************************)
MkState(kind, ftype, fval) == [kind |-> kind, ftype |-> ftype, fval |-> fval]

\* load_state: the dict it returns, as the value of last_notified_fixing_yyyymmdd
load_state(file) ==
    IF file.kind = "absent" THEN [ftype |-> "missing", fval |-> 0]
    ELSE IF file.kind = "notjson" THEN [ftype |-> "missing", fval |-> 0]     \* except Exception
    ELSE IF file.kind = "nonobject" THEN [ftype |-> "missing", fval |-> 0]   \* not a dict
    ELSE [ftype |-> file.ftype, fval |-> file.fval]

\* int(state.get("last_notified_fixing_yyyymmdd") or 0): [err, val]
ParseLastKey(state) ==
    IF state.ftype \in {"missing", "null"} THEN [err |-> "none", val |-> 0]
    ELSE IF state.ftype = "int" THEN [err |-> "none", val |-> state.fval]
    ELSE IF state.ftype = "strnum" THEN [err |-> "none", val |-> state.fval]  \* int("20261230")
    ELSE IF state.ftype = "strjunk" THEN [err |-> "ValueError", val |-> 0]    \* int("abc")
    ELSE [err |-> "TypeError", val |-> 0]                                     \* int([1])

\* a wrong test: the stored key never suppresses
IsAlreadyNotified_never(last_key, fixing_key) == FALSE

\* a wrong test: every stored key suppresses
IsAlreadyNotified_always(last_key, fixing_key) == TRUE

\* last_key == fixing_key
IsAlreadyNotified(last_key, fixing_key) == last_key = fixing_key

\* a wrong payload: the key written is the one that was stored before
StatePayload_stale(state, fixing_key) ==
    MkState("object", state.ftype, state.fval)

\* state.update(state_payload); save_state(...): the file after tmp.replace
StatePayload(state, fixing_key) == MkState("object", "int", fixing_key)

(***************************************************************************)
(* Inputs of the model.                                                    *)
(***************************************************************************)
HHMM(hh, mm) == <<hh, mm>>

DefaultCfg ==
    [include_day31 |-> TRUE, include_feb_last_day |-> TRUE,
     exclude_yearend_bank_closure |-> TRUE,
     enable_holiday_jp |-> TRUE, enable_holiday_us |-> TRUE,
     enforce_window |-> TRUE,
     window_prev_day_start_hhmm |-> HHMM(10, 0),
     window_fixing_end_hhmm |-> HHMM(9, 55),
     ntfy_server |-> "https://ntfy.sh",
     notify_mode |-> "ntfy", enable_ntfy |-> TRUE, enable_state_update |-> TRUE]

\* the transports: notify_mode, enable_ntfy, ntfy_server
Transports ==
    { <<"ntfy", TRUE, "https://ntfy.sh">>,
      <<"ntfy", TRUE, "ntfy.sh">>,            \* no scheme: Request() raises ValueError
      <<"ntfy", FALSE, "https://ntfy.sh">>,
      <<"local", TRUE, "https://ntfy.sh">> }

MainCfgs ==
    { [DefaultCfg EXCEPT !.exclude_yearend_bank_closure = ye,
                         !.enforce_window = ew,
                         !.enable_state_update = su,
                         !.notify_mode = t[1], !.enable_ntfy = t[2], !.ntfy_server = t[3]] :
        ye \in BOOLEAN, ew \in BOOLEAN, su \in BOOLEAN, t \in Transports }

\* the configurations the holiday files are varied under
HolidayCfgs == { [DefaultCfg EXCEPT !.enable_holiday_jp = ejp] : ejp \in BOOLEAN }

FnCfgs ==
    { [DefaultCfg EXCEPT !.include_day31 = d31,
                         !.include_feb_last_day = fl,
                         !.exclude_yearend_bank_closure = ye,
                         !.enable_holiday_jp = ejp,
                         !.enable_holiday_us = eus] :
        d31 \in BOOLEAN, fl \in BOOLEAN, ye \in BOOLEAN, ejp \in BOOLEAN, eus \in BOOLEAN }

MkFile(exists, tokens) == [exists |-> exists, tokens |-> tokens]

\* length of the run of consecutive holidays of LongRunFile
LongRunDays == 75

\* the last day of that run
LongRunEnd == MkDate(2027, 1, 10)

MissingFile == MkFile(FALSE, {})
JunkFile == MkFile(TRUE, {0, 20270230, 19000101, 20271301})
JpFile == MkFile(TRUE, {20261123, 20270101, 20270111, 20270230, 0})
JpFileDec30 == MkFile(TRUE, {20261230})
JpFileJan45 == MkFile(TRUE, {20270104, 20270105})
UsFile == MkFile(TRUE, {20261225, 20270101, 20270118})
LongRunFile == MkFile(TRUE, {_date_key(AddDays(LongRunEnd, 0 - k)) : k \in 0..(LongRunDays - 1)})

\* the days main is run on: MainFirstDay .. MainFirstDay + MaxDayOffset
MaxDayOffset == 2

MainFirstDay == MkDate(2026, 12, 29)

MainDays == {AddDays(MainFirstDay, k) : k \in 0..MaxDayOffset}

\* the times of day main is started at
MainTimes == {HHMM(9, 54), HHMM(9, 55), HHMM(9, 59), HHMM(10, 0)}

MainInstants == {MkDt(d, t[1], t[2]) : d \in MainDays, t \in MainTimes}

MainStateFiles ==
    { MkState("absent", "missing", 0), MkState("notjson", "missing", 0),
      MkState("nonobject", "missing", 0),
      MkState("object", "missing", 0), MkState("object", "null", 0),
      MkState("object", "int", 20261230), MkState("object", "strnum", 20261230),
      MkState("object", "strjunk", 0), MkState("object", "list", 0) }

\* the dates the pure functions are applied to: each anchor .. anchor + ProbeSpan
ProbeSpan == 26

ProbeAnchors == {MkDate(2026, 12, 20), MkDate(2024, 2, 24)}

ProbeDates == {AddDays(a, k) : a \in ProbeAnchors, k \in 0..ProbeSpan}

ProbeYears == {2000, 2024, 2026, 2100}

NoCall ==
    [op |-> "none", date |-> NoDate, year |-> 0, month |-> 0, out |-> NoDate,
     days |-> <<>>, found |-> FALSE, base |-> 0]

\* the holiday_keys_jp / holiday_keys_us run_once passes on
HolidayArg(enabled, file) ==
    IF enabled THEN SomeKeys(load_holiday_keys(file).keys) ELSE NoneKeys

Hjp == HolidayArg(cfg.enable_holiday_jp, jpFile)
Hus == HolidayArg(cfg.enable_holiday_us, usFile)

(***************************************************************************)
(* main and run_once.                                                      *)
(***************************************************************************)
Raise(kind, at) ==
    /\ raised' = Append(raised, [kind |-> kind, at |-> at, attempt |-> attempt])
    /\ pc' = "except"
    /\ outcome' = "raised"

\* return 0 from run_once, and from main
Return0(how) ==
    /\ pc' = "done"
    /\ exitStatus' = 0
    /\ outcome' = how

\* the first load_holiday_keys that raises, "none" when none does
HolidayLoadError ==
    LET jp == IF cfg.enable_holiday_jp THEN load_holiday_keys(jpFile).err ELSE "none"
        us == IF cfg.enable_holiday_us THEN load_holiday_keys(usFile).err ELSE "none"
    IN  IF jp # "none" THEN jp ELSE us

\* run_once, lines 485-488: a holiday file is missing or has no valid date
RunLoadRaises ==
    /\ pc = "run"
    /\ HolidayLoadError # "none"
    /\ Raise(HolidayLoadError, "load_holiday_keys")
    /\ UNCHANGED <<cfg, jpFile, usFile, stateFile, now, attempt, fx, exitStatus,
                   okInMain, sent, everOk, dup, saveFailed, stateAtMain, stateAtRun, call>>

\* run_once, lines 490-493: neither today nor tomorrow is a fixing day
RunNoFixing ==
    /\ pc = "run"
    /\ HolidayLoadError = "none"
    /\ LET r == choose_fixing_date(now, Hjp, Hus, cfg)
       IN  /\ r.date = NoDate
           /\ fx' = r
    /\ Return0("nofix")
    /\ UNCHANGED <<cfg, jpFile, usFile, stateFile, now, attempt, raised,
                   okInMain, sent, everOk, dup, saveFailed, stateAtMain, stateAtRun, call>>

\* run_once, lines 495-499: a fixing day, but now is outside its window
RunOutsideWindow ==
    /\ pc = "run"
    /\ HolidayLoadError = "none"
    /\ LET r == choose_fixing_date(now, Hjp, Hus, cfg)
       IN  /\ r.date # NoDate
           /\ cfg.enforce_window /\ ~in_notify_window(now, r.date, cfg)
           /\ fx' = r
    /\ Return0("outwin")
    /\ UNCHANGED <<cfg, jpFile, usFile, stateFile, now, attempt, raised,
                   okInMain, sent, everOk, dup, saveFailed, stateAtMain, stateAtRun, call>>

\* run_once, lines 490-501: a fixing day, and the window test lets the run go on
RunProceeds ==
    /\ pc = "run"
    /\ HolidayLoadError = "none"
    /\ LET r == choose_fixing_date(now, Hjp, Hus, cfg)
       IN  /\ r.date # NoDate
           /\ ~(cfg.enforce_window /\ ~in_notify_window(now, r.date, cfg))
           /\ fx' = r
    /\ pc' = "dedup"
    /\ UNCHANGED <<cfg, jpFile, usFile, stateFile, now, attempt, exitStatus, raised,
                   okInMain, sent, everOk, dup, saveFailed, stateAtMain, stateAtRun,
                   outcome, call>>

\* run_once, line 503: int() raises on the stored value
DedupRaises ==
    /\ pc = "dedup"
    /\ ParseLastKey(load_state(stateFile)).err # "none"
    /\ Raise(ParseLastKey(load_state(stateFile)).err, "load_state")
    /\ UNCHANGED <<cfg, jpFile, usFile, stateFile, now, attempt, fx, exitStatus,
                   okInMain, sent, everOk, dup, saveFailed, stateAtMain, stateAtRun, call>>

\* run_once, lines 504-506: the stored key is the resolved key
DedupSuppress ==
    /\ pc = "dedup"
    /\ LET last_key == ParseLastKey(load_state(stateFile))
       IN  /\ last_key.err = "none"
           /\ IsAlreadyNotified(last_key.val, _date_key(fx.date))
    /\ Return0("dup")
    /\ UNCHANGED <<cfg, jpFile, usFile, stateFile, now, attempt, fx, raised,
                   okInMain, sent, everOk, dup, saveFailed, stateAtMain, stateAtRun, call>>

\* run_once, lines 504-509: the stored key differs
DedupProceeds ==
    /\ pc = "dedup"
    /\ LET last_key == ParseLastKey(load_state(stateFile))
       IN  /\ last_key.err = "none"
           /\ ~IsAlreadyNotified(last_key.val, _date_key(fx.date))
    /\ pc' = "dispatch"
    /\ UNCHANGED <<cfg, jpFile, usFile, stateFile, now, attempt, fx, exitStatus, raised,
                   okInMain, sent, everOk, dup, saveFailed, stateAtMain, stateAtRun,
                   outcome, call>>

\* the dispatch step of this attempt has completed without raising; real says
\* that a notification was handed to a transport
DispatchCompleted(real) ==
    LET k == _date_key(fx.date)
    IN  /\ okInMain' = Append(okInMain, [attempt |-> attempt, key |-> k, real |-> real])
        /\ everOk' = everOk \cup {k}
        /\ dup' = IF k \in everOk THEN dup \cup {k} ELSE dup
        /\ pc' = "persist"

CountCall == sent' = [sent EXCEPT ![attempt] = @ + 1]

\* run_once, lines 511-514: local_notify returns True or False, never raises
DispatchLocal ==
    /\ pc = "dispatch"
    /\ cfg.notify_mode = "local"
    /\ CountCall
    /\ DispatchCompleted(TRUE)
    /\ UNCHANGED <<cfg, jpFile, usFile, stateFile, now, attempt, fx, exitStatus, raised,
                   saveFailed, stateAtMain, stateAtRun, outcome, call>>

\* urllib.request.Request(url) accepts the url
UrlHasScheme(server) == server = "https://ntfy.sh"

\* run_once, lines 517-525: ntfy_publish returns
DispatchNtfyOk ==
    /\ pc = "dispatch"
    /\ cfg.notify_mode # "local" /\ cfg.enable_ntfy
    /\ UrlHasScheme(cfg.ntfy_server)
    /\ CountCall
    /\ DispatchCompleted(TRUE)
    /\ UNCHANGED <<cfg, jpFile, usFile, stateFile, now, attempt, fx, exitStatus, raised,
                   saveFailed, stateAtMain, stateAtRun, outcome, call>>

\* run_once, lines 517-525: ntfy_publish raises
DispatchNtfyRaises ==
    /\ pc = "dispatch"
    /\ cfg.notify_mode # "local" /\ cfg.enable_ntfy
    /\ CountCall
    /\ \/ /\ UrlHasScheme(cfg.ntfy_server)
          /\ \E kind \in {"HTTPError", "URLError"} : Raise(kind, "ntfy_publish")
       \/ /\ ~UrlHasScheme(cfg.ntfy_server)
          /\ Raise("ValueError", "ntfy_publish")
    /\ UNCHANGED <<cfg, jpFile, usFile, stateFile, now, attempt, fx, exitStatus,
                   okInMain, everOk, dup, saveFailed, stateAtMain, stateAtRun, call>>

\* run_once, lines 526-527: --no-ntfy, nothing is sent
DispatchSkipped ==
    /\ pc = "dispatch"
    /\ cfg.notify_mode # "local" /\ ~cfg.enable_ntfy
    /\ DispatchCompleted(FALSE)
    /\ UNCHANGED <<cfg, jpFile, usFile, stateFile, now, attempt, fx, exitStatus, raised,
                   sent, saveFailed, stateAtMain, stateAtRun, outcome, call>>

\* run_once, lines 529-546, 549: the state is saved
PersistOk ==
    /\ pc = "persist"
    /\ cfg.enable_state_update
    /\ stateFile' = StatePayload(load_state(stateFile), _date_key(fx.date))
    /\ Return0("notified")
    /\ UNCHANGED <<cfg, jpFile, usFile, now, attempt, fx, raised,
                   okInMain, sent, everOk, dup, saveFailed, stateAtMain, stateAtRun, call>>

\* run_once, line 545: save_state raises before tmp.replace has run
PersistRaises ==
    /\ pc = "persist"
    /\ cfg.enable_state_update
    /\ saveFailed' = TRUE
    /\ Raise("OSError", "save_state")
    /\ UNCHANGED <<cfg, jpFile, usFile, stateFile, now, attempt, fx, exitStatus,
                   okInMain, sent, everOk, dup, stateAtMain, stateAtRun, call>>

\* run_once, lines 547-549: --no-state
PersistSkipped ==
    /\ pc = "persist"
    /\ ~cfg.enable_state_update
    /\ Return0("notified")
    /\ UNCHANGED <<cfg, jpFile, usFile, stateFile, now, attempt, fx, raised,
                   okInMain, sent, everOk, dup, saveFailed, stateAtMain, stateAtRun, call>>

LastRaised == raised[Len(raised)]

\* except (FileNotFoundError, ValueError)
IsInputError(kind) == kind \in {"FileNotFoundError", "ValueError"}

\* main, lines 609-611
MainInputError ==
    /\ pc = "except"
    /\ IsInputError(LastRaised.kind)
    /\ pc' = "done"
    /\ exitStatus' = 2
    /\ UNCHANGED <<cfg, jpFile, usFile, stateFile, now, attempt, fx, raised,
                   okInMain, sent, everOk, dup, saveFailed, stateAtMain, stateAtRun,
                   outcome, call>>

\* a wrong budget: every attempt may be followed by another
MayRetry_always(a) == TRUE

\* attempt == 1
MayRetry(a) == a = 1

\* the clock one minute later
PlusMinute(t) ==
    IF t.mm < 59 THEN MkDt(t.date, t.hh, t.mm + 1)
    ELSE IF t.hh < 23 THEN MkDt(t.date, t.hh + 1, 0)
    ELSE MkDt(NextDay(t.date), 0, 0)

\* main, lines 612-621: time.sleep(10), then the second attempt; the clock
\* stands still under --now and may have passed a minute boundary otherwise
MainRetry ==
    /\ pc = "except"
    /\ ~IsInputError(LastRaised.kind)
    /\ MayRetry(attempt)
    /\ attempt' = attempt + 1
    /\ now' \in {now, PlusMinute(now)}
    /\ pc' = "run"
    /\ fx' = [date |-> NoDate, base |-> 0]
    /\ sent' = Append(sent, 0)
    /\ stateAtRun' = stateFile
    /\ outcome' = "running"
    /\ UNCHANGED <<cfg, jpFile, usFile, stateFile, exitStatus, raised,
                   okInMain, everOk, dup, saveFailed, stateAtMain, call>>

\* main, lines 612-623: the second failure
MainGiveUp ==
    /\ pc = "except"
    /\ ~IsInputError(LastRaised.kind)
    /\ ~MayRetry(attempt)
    /\ pc' = "done"
    /\ exitStatus' = 1
    /\ UNCHANGED <<cfg, jpFile, usFile, stateFile, now, attempt, fx, raised,
                   okInMain, sent, everOk, dup, saveFailed, stateAtMain, stateAtRun,
                   outcome, call>>

\* main is started again (the next scheduled run), at the same or a later instant
NextInvocation ==
    /\ pc = "done"
    /\ \E t \in MainInstants : DtLeq(now, t) /\ now' = t
    /\ pc' = "run"
    /\ attempt' = 1
    /\ fx' = [date |-> NoDate, base |-> 0]
    /\ exitStatus' = -1
    /\ raised' = <<>>
    /\ okInMain' = <<>>
    /\ sent' = <<0>>
    /\ stateAtMain' = stateFile
    /\ stateAtRun' = stateFile
    /\ outcome' = "running"
    /\ UNCHANGED <<cfg, jpFile, usFile, stateFile, everOk, dup, saveFailed, call>>

Init ==
    /\ \/ /\ jpFile = JpFile
          /\ cfg \in MainCfgs
          /\ stateFile \in MainStateFiles
       \/ /\ jpFile \in {MissingFile, JunkFile, JpFileDec30}
          /\ cfg \in HolidayCfgs
          /\ stateFile \in {MkState("absent", "missing", 0), MkState("object", "int", 20261230)}
    /\ usFile = UsFile
    /\ now \in MainInstants
    /\ pc = "run"
    /\ attempt = 1
    /\ fx = [date |-> NoDate, base |-> 0]
    /\ exitStatus = -1
    /\ raised = <<>>
    /\ okInMain = <<>>
    /\ sent = <<0>>
    /\ everOk = {}
    /\ dup = {}
    /\ saveFailed = FALSE
    /\ stateAtMain = stateFile
    /\ stateAtRun = stateFile
    /\ outcome = "running"
    /\ call = NoCall

Next ==
    \/ RunLoadRaises \/ RunNoFixing \/ RunOutsideWindow \/ RunProceeds
    \/ DedupRaises \/ DedupSuppress \/ DedupProceeds
    \/ DispatchLocal \/ DispatchNtfyOk \/ DispatchNtfyRaises \/ DispatchSkipped
    \/ PersistOk \/ PersistRaises \/ PersistSkipped
    \/ MainInputError \/ MainRetry \/ MainGiveUp
    \/ NextInvocation

Spec == Init /\ [][Next]_vars

(***************************************************************************)
(* The pure functions, applied to inputs drawn from the probe sets.        *)
(***************************************************************************)
FnUnchanged ==
    UNCHANGED <<cfg, jpFile, usFile, stateFile, now, pc, attempt, fx, exitStatus,
                raised, okInMain, sent, everOk, dup, saveFailed, stateAtMain,
                stateAtRun, outcome>>

ApplyNormalize ==
    /\ call.op = "none"
    /\ \E d \in ProbeDates :
         call' = [NoCall EXCEPT !.op = "normalize_biz_day", !.date = d,
                                !.out = normalize_biz_day(d, Hjp, Hus, cfg)]
    /\ FnUnchanged

ApplyBuildBaseDays ==
    /\ call.op = "none"
    /\ \E y \in ProbeYears, m \in 1..12 :
         call' = [NoCall EXCEPT !.op = "build_gotobi_base_days", !.year = y, !.month = m,
                                !.days = build_gotobi_base_days(y, m, cfg)]
    /\ FnUnchanged

ApplyIsFixingDay ==
    /\ call.op = "none"
    /\ \E d \in ProbeDates :
         LET r == is_fixing_day(d, Hjp, Hus, cfg)
         IN  call' = [NoCall EXCEPT !.op = "is_fixing_day", !.date = d,
                                    !.found = r.found, !.base = r.base]
    /\ FnUnchanged

ApplyChooseFixingDate ==
    /\ call.op = "none"
    /\ \E d \in ProbeDates :
         LET r == choose_fixing_date(MkDt(d, 10, 0), Hjp, Hus, cfg)
         IN  call' = [NoCall EXCEPT !.op = "choose_fixing_date", !.date = d,
                                    !.out = r.date, !.found = r.date # NoDate,
                                    !.base = r.base]
    /\ FnUnchanged

InitFn ==
    /\ cfg \in FnCfgs
    /\ jpFile \in {JpFile, JpFileJan45, LongRunFile}
    /\ usFile \in {UsFile}
    /\ stateFile = MkState("absent", "missing", 0)
    /\ now = MkDt(MainFirstDay, 10, 0)
    /\ pc = "fn"
    /\ attempt = 0
    /\ fx = [date |-> NoDate, base |-> 0]
    /\ exitStatus = -1
    /\ raised = <<>>
    /\ okInMain = <<>>
    /\ sent = <<0>>
    /\ everOk = {}
    /\ dup = {}
    /\ saveFailed = FALSE
    /\ stateAtMain = stateFile
    /\ stateAtRun = stateFile
    /\ outcome = "running"
    /\ call = NoCall

NextFn ==
    \/ ApplyNormalize \/ ApplyBuildBaseDays \/ ApplyIsFixingDay \/ ApplyChooseFixingDate

SpecFn == InitFn /\ [][NextFn]_vars

(***************************************************************************)
(* Properties.                                                             *)
(***************************************************************************)
FixingKey == _date_key(fx.date)

StoredKey == ParseLastKey(load_state(stateFile))

\* minutes since 0001-01-01 00:00, by day number
Minutes(t) == ToOrdinal(t.date) * 1440 + t.hh * 60 + t.mm

\* C1: with state update enabled and every save succeeding, over runs at
\* non-decreasing instants the dispatch step completes at most once per fixing
\* key; a run that resolves a key whose dispatch has completed finds that key
\* stored, and so is suppressed.
C1_AtMostOncePerKey ==
    (cfg.enable_state_update /\ ~saveFailed) =>
        /\ dup = {}
        /\ (pc = "dedup" /\ FixingKey \in everOk) =>
               (StoredKey.err = "none" /\ StoredKey.val = FixingKey)
        /\ (outcome = "dup" /\ FixingKey \in everOk) => sent[attempt] = 0

\* C1 witness: a later run resolved a key already dispatched and was suppressed
C1_Witness ==
    /\ cfg.enable_state_update /\ ~saveFailed
    /\ outcome = "dup" /\ pc = "done"
    /\ FixingKey \in everOk
    /\ stateAtMain = MkState("object", "int", FixingKey)

\* C2: within one call of main at most one notification is sent for a fixing
\* day, whichever step of attempt 1 raised.
C2_ExactlyOnceUnderRetry ==
    \A i, j \in 1..Len(okInMain) :
        (okInMain[i].real /\ okInMain[j].real /\ okInMain[i].key = okInMain[j].key) => i = j

\* C3: main evaluates at most twice; a retryable error in attempt 1 leads to
\* exactly one more attempt; when attempt 2 raises too main returns 1 and the
\* state file is as it was when main started.
C3_RetryBudget ==
    /\ attempt \in {1, 2}
    /\ Len(raised) <= attempt
    /\ (pc = "done" /\ Len(raised) >= 1 /\ ~IsInputError(raised[1].kind)) => attempt = 2
    /\ (pc = "done" /\ Len(raised) = 2 /\ ~IsInputError(raised[2].kind)) => exitStatus = 1
    /\ Len(raised) = 2 => stateFile = stateAtMain
    /\ exitStatus = 1 => (Len(raised) = 2 /\ attempt = 2 /\ stateFile = stateAtMain)

\* C3 witness: both attempts raised a dispatch error and main returned 1
C3_Witness ==
    /\ pc = "done" /\ exitStatus = 1
    /\ Len(raised) = 2
    /\ raised[1].at = "ntfy_publish" /\ raised[2].at = "ntfy_publish"

\* C4: status 2 is returned for a holiday-file error only, after exactly one
\* attempt, with no dispatch call and the state file unchanged.
C4_Status2IsHolidayInputError ==
    exitStatus = 2 =>
        /\ LastRaised.at = "load_holiday_keys"
        /\ attempt = 1 /\ Len(raised) = 1
        /\ sent = <<0>>
        /\ stateFile = stateAtMain

\* C5: no content of the state file makes run_once raise.
C5_StateFileNeverRaises ==
    \A i \in 1..Len(raised) : raised[i].at # "load_state"

\* C6: the state file changes only in the save that follows a completed
\* dispatch step of the same run, and then holds the resolved fixing key; a run
\* that ends with no fixing day, outside the window, suppressed or by raising
\* leaves it unchanged, and a suppressed run makes no dispatch call.
C6_StateWrittenOnlyAfterDispatch ==
    /\ [][stateFile' # stateFile =>
            /\ pc = "persist"
            /\ \E i \in 1..Len(okInMain) :
                   okInMain[i].attempt = attempt /\ okInMain[i].key = FixingKey
            /\ stateFile' = MkState("object", "int", FixingKey)]_vars
    /\ [](outcome \in {"nofix", "outwin", "dup", "raised"} => stateFile = stateAtRun)
    /\ [](outcome = "dup" => sent[attempt] = 0)
    /\ []((outcome = "notified" /\ cfg.enable_state_update) =>
             stateFile = MkState("object", "int", FixingKey))

\* C6 witness: a run dispatched and then replaced a different stored key
C6_Witness ==
    /\ outcome = "notified" /\ pc = "done"
    /\ stateAtRun = MkState("object", "int", 20261230)
    /\ stateFile = MkState("object", "int", 20261231)

\* C7 as claimed: normalize_biz_day is idempotent and never moves forward.
C7_NormalizeIdempotent ==
    call.op = "normalize_biz_day" =>
        /\ normalize_biz_day(call.out, Hjp, Hus, cfg) = call.out
        /\ ToOrdinal(call.out) <= ToOrdinal(call.date)

\* C7 as amended: normalize_biz_day(d) is d or one of the 60 days before it,
\* every day after it up to d is a non-business day, it is a business day
\* unless it is d - 60, and it is a fixed point whenever it is a business day.
C7_NormalizeBounded ==
    call.op = "normalize_biz_day" =>
        LET steps == ToOrdinal(call.date) - ToOrdinal(call.out)
        IN  /\ 0 <= steps /\ steps <= MaxBackSteps
            /\ \A k \in 0..(steps - 1) : ~IsBizDay(AddDays(call.date, 0 - k), Hjp, Hus, cfg)
            /\ steps < MaxBackSteps => IsBizDay(call.out, Hjp, Hus, cfg)
            /\ IsBizDay(call.out, Hjp, Hus, cfg) =>
                   normalize_biz_day(call.out, Hjp, Hus, cfg) = call.out

\* C7 witness: 60 backward steps were taken and the result is not a business day
C7_Witness ==
    /\ call.op = "normalize_biz_day"
    /\ ToOrdinal(call.date) - ToOrdinal(call.out) = MaxBackSteps
    /\ ~IsBizDay(call.out, Hjp, Hus, cfg)

\* C8: choose_fixing_date returns today when today is a fixing day, tomorrow
\* when only tomorrow is, and no date otherwise; never a later date.
C8_TodayElseTomorrow ==
    call.op = "choose_fixing_date" =>
        LET today == call.date
            tomorrow == AddDays(call.date, 1)
            t == is_fixing_day(today, Hjp, Hus, cfg)
            m == is_fixing_day(tomorrow, Hjp, Hus, cfg)
        IN  /\ t.found => (call.out = today /\ call.base = t.base)
            /\ (~t.found /\ m.found) => (call.out = tomorrow /\ call.base = m.base)
            /\ (~t.found /\ ~m.found) => (call.out = NoDate /\ call.base = 0)
            /\ call.out # NoDate => (ToOrdinal(call.out) - ToOrdinal(today)) \in {0, 1}

\* C8 witness: today and tomorrow are both fixing days and today was returned
C8_Witness ==
    /\ call.op = "choose_fixing_date"
    /\ is_fixing_day(call.date, Hjp, Hus, cfg).found
    /\ is_fixing_day(AddDays(call.date, 1), Hjp, Hus, cfg).found
    /\ call.out = call.date

\* now lies in [F - 1 day at the start time, F at the end time)
InsideWindow(t, f, c) ==
    LET start == (ToOrdinal(f) - 1) * 1440 + c.window_prev_day_start_hhmm[1] * 60
                 + c.window_prev_day_start_hhmm[2]
        end == ToOrdinal(f) * 1440 + c.window_fixing_end_hhmm[1] * 60
               + c.window_fixing_end_hhmm[2]
    IN  start <= Minutes(t) /\ Minutes(t) < end

\* C9: in_notify_window is membership in the half-open window; run_once stops
\* outside it when enforcement is on and goes on for every instant when it is off.
C9_HalfOpenWindow ==
    /\ fx.date # NoDate =>
           (in_notify_window(now, fx.date, cfg) <=> InsideWindow(now, fx.date, cfg))
    /\ outcome = "outwin" => (cfg.enforce_window /\ ~InsideWindow(now, fx.date, cfg))
    /\ (fx.date # NoDate /\ outcome # "outwin") =>
           (~cfg.enforce_window \/ InsideWindow(now, fx.date, cfg))

\* C9 witness: now is the start bound of the window and the run went on
C9_Witness ==
    /\ cfg.enforce_window
    /\ pc = "dedup"
    /\ fx.date = MkDate(2026, 12, 30)
    /\ now = MkDt(MkDate(2026, 12, 29), 10, 0)

\* days of the month, by day numbers
DaysOfMonth(y, m) ==
    ToOrdinal(IF m = 12 THEN MkDate(y + 1, 1, 1) ELSE MkDate(y, m + 1, 1))
    - ToOrdinal(MkDate(y, m, 1))

SeqToSet(s) == {s[i] : i \in 1..Len(s)}

\* C10: build_gotobi_base_days returns the multiples of 5 up to the month's
\* length, 31 under its three conditions, and the last day of February when
\* that option is on; every base day is a day of the month; with the closure
\* excluded, 2026-12-30 is a fixing day with base day 30 when it is a business day.
C10_BaseDays ==
    /\ call.op = "build_gotobi_base_days" =>
           LET dim == DaysOfMonth(call.year, call.month)
           IN  /\ SeqToSet(call.days) =
                      {d \in {5, 10, 15, 20, 25, 30} : d <= dim}
                      \cup (IF cfg.include_day31 /\ dim = 31
                               /\ ~(cfg.exclude_yearend_bank_closure /\ call.month = 12)
                            THEN {31} ELSE {})
                      \cup (IF call.month = 2 /\ cfg.include_feb_last_day
                            THEN {dim} ELSE {})
               /\ Len(call.days) = Cardinality(SeqToSet(call.days))
               /\ \A i \in 1..Len(call.days) : 1 <= call.days[i] /\ call.days[i] <= dim
    /\ (/\ call.op = "is_fixing_day"
        /\ call.date = MkDate(2026, 12, 30)
        /\ cfg.exclude_yearend_bank_closure
        /\ IsBizDay(call.date, Hjp, Hus, cfg)) => (call.found /\ call.base = 30)

\* C10 witness: December 2026 with day 31 enabled and the closure excluded
C10_Witness ==
    /\ call.op = "build_gotobi_base_days"
    /\ call.year = 2026 /\ call.month = 12
    /\ cfg.include_day31 /\ cfg.exclude_yearend_bank_closure
    /\ call.days = <<5, 10, 15, 20, 25, 30>>

\* the classifier as configured: weekend, member of an enabled holiday set,
\* or year-end closure when it is excluded
NonBusinessDay(d) ==
    \/ ToOrdinal(d) % 7 \in {6, 0}                        \* day 1 is a Monday
    \/ (cfg.enable_holiday_jp /\ _date_key(d) \in {t \in jpFile.tokens : TokenIsDate(t)})
    \/ (cfg.enable_holiday_us /\ _date_key(d) \in {t \in usFile.tokens : TokenIsDate(t)})
    \/ /\ cfg.exclude_yearend_bank_closure
       /\ _date_key(d) % 10000 \in {1231, 101, 102, 103}

\* normalisation of the i-th candidate of target's month
NormOfCandidate(target, days, i) ==
    normalize_biz_day(MkDate(target.year, target.month, days[i]), Hjp, Hus, cfg)

\* C11: a date is_fixing_day accepts is a business day, also when some
\* candidate of its month made normalize_biz_day give up after 60 steps; the
\* base day returned is the first candidate of the month whose normalisation
\* is the date.
C11_FixingDayIsBusinessDay ==
    (call.op = "is_fixing_day" /\ call.found) =>
        LET days == build_gotobi_base_days(call.date.year, call.date.month, cfg)
        IN  /\ ~NonBusinessDay(call.date)
            /\ \E i \in 1..Len(days) :
                   /\ days[i] = call.base
                   /\ NormOfCandidate(call.date, days, i) = call.date
                   /\ \A j \in 1..(i - 1) : NormOfCandidate(call.date, days, j) # call.date

\* C11 witness: a fixing day found in a month where another candidate made
\* normalize_biz_day give up on a non-business date
C11_Witness ==
    /\ call.op = "is_fixing_day" /\ call.found
    /\ LET days == build_gotobi_base_days(call.date.year, call.date.month, cfg)
       IN  \E j \in 1..Len(days) :
               LET base_date == MkDate(call.date.year, call.date.month, days[j])
                   n == NormOfCandidate(call.date, days, j)
               IN  /\ ToOrdinal(base_date) - ToOrdinal(n) = MaxBackSteps
                   /\ NonBusinessDay(n)

\* the dates whose window can hold now: today and tomorrow, and their neighbours
NearDates(t) == {AddDays(t.date, k) : k \in (0 - 1)..2}

\* F is a fixing day whose window holds now, for a run with the window
\* enforced and both holiday files loaded
WindowOpenFor(f) ==
    /\ pc # "run"
    /\ cfg.enforce_window
    /\ HolidayLoadError = "none"
    /\ InsideWindow(now, f, cfg)
    /\ is_fixing_day(f, Hjp, Hus, cfg).found

\* the key run_once read at line 503 differs from the key of F
StoredKeyDiffers(f) ==
    LET k == ParseLastKey(load_state(stateAtRun))
    IN  k.err = "none" /\ k.val # _date_key(f)

\* the run resolved F, passed the window test and entered the dispatch step
DispatchesFor(f) ==
    /\ fx.date = f
    /\ outcome \notin {"nofix", "outwin", "dup"}
    /\ pc \in {"dispatch", "persist", "done"}
       \/ (pc = "except" /\ LastRaised.at \in {"ntfy_publish", "save_state"})
    /\ (pc \in {"persist", "except", "done"}
        /\ (cfg.notify_mode = "local" \/ cfg.enable_ntfy)) => sent[attempt] = 1

\* C12 as claimed: whenever now lies in the window of a fixing day F and the
\* stored key differs from F's, the run resolves F and dispatches for F.
C12_NoWindowMissed ==
    \A f \in NearDates(now) :
        (WindowOpenFor(f) /\ StoredKeyDiffers(f) /\ pc # "dedup") => DispatchesFor(f)

\* C12 as amended: the same, for F being today, or tomorrow when today is not
\* a fixing day; and whatever the state file holds, such a run resolves F and
\* passes the window test.
C12_NoWindowMissedUnlessTodayFixing ==
    \A f \in NearDates(now) :
        (/\ WindowOpenFor(f)
         /\ f = now.date \/ ~is_fixing_day(now.date, Hjp, Hus, cfg).found) =>
            /\ fx.date = f /\ outcome \notin {"nofix", "outwin"}
            /\ (StoredKeyDiffers(f) /\ pc # "dedup") => DispatchesFor(f)

\* C12 witness: the 30th and the 31st are both fixing days; the run of the
\* 31st at 09:54 dispatches for the 31st although the 30th is stored
C12_Witness ==
    /\ WindowOpenFor(MkDate(2026, 12, 31))
    /\ is_fixing_day(MkDate(2026, 12, 30), Hjp, Hus, cfg).found
    /\ now = MkDt(MkDate(2026, 12, 31), 9, 54)
    /\ stateAtRun = MkState("object", "int", 20261230)
    /\ pc = "persist" /\ fx.date = MkDate(2026, 12, 31) /\ sent[attempt] = 1

====
